---- MODULE Spec2Model ----
(***************************************************************************)
(* A model of vrcprintutils.py: the geometry constants, format detection,  *)
(* the orientation rebuild, the frame toggle and the command-line pipeline.*)
(*                                                                         *)
(* A raster image has 2048x1440 pixels, so an image is kept as the tree of *)
(* Pillow calls that produced it (new, paste, crop, transpose, invert,     *)
(* resize, composite) over an opened file; Px evaluates any pixel of such  *)
(* a tree exactly as the calls compute it.  Only RGB images are modelled.  *)
(***************************************************************************)
EXTENDS Integers, Sequences, FiniteSets, TLC

VARIABLES cur, inp, photo, call, steps, orig, rots, pc, actions, fmt, suffix_tokens, out_path

vars == <<cur, inp, photo, call, steps, orig, rots, pc, actions, fmt, suffix_tokens, out_path>>
libvars == <<cur, inp, photo, call, steps, orig, rots>>
mainvars == <<pc, actions, fmt, suffix_tokens, out_path>>

(* ------------------------------ bounds -------------------------------- *)
\* number of library calls applied to one image
MaxOps == 2
\* image sizes tried around each known size: the known size -Slack..+Slack
Slack == 1

(* ------------------------- geometry constants ------------------------- *)
ORIG_W == 2048
ORIG_H == 1440
SIDE_BORDER == 64
TOP_BORDER == 69
BOTTOM_TEXT == 291
INNER_W == ORIG_W - 2 * SIDE_BORDER
INNER_H == ORIG_H - TOP_BORDER - BOTTOM_TEXT

\* SCALE = 1080 / 1920.0 = 0.5625, exact in binary floating point
SCALE_NUM == 1080
SCALE_DEN == 1920
PHOTO_SHORT == 1080
PHOTO_LONG == 1920

\* Python's round() of the non-negative rational n/d: to nearest, ties to even
RoundDiv(n, d) ==
    LET q == n \div d
        r == n % d
    IN  IF 2 * r < d THEN q
        ELSE IF 2 * r > d THEN q + 1
        ELSE IF q % 2 = 0 THEN q ELSE q + 1

SIDE_SCALED == RoundDiv(SIDE_BORDER * SCALE_NUM, SCALE_DEN)
TOP_SCALED == RoundDiv(TOP_BORDER * SCALE_NUM, SCALE_DEN)
BOTTOM_TEXT_SCALED == RoundDiv(BOTTOM_TEXT * SCALE_NUM, SCALE_DEN)

PORT_W == PHOTO_SHORT + 2 * SIDE_SCALED
PORT_H == PHOTO_LONG + TOP_SCALED + BOTTOM_TEXT_SCALED

Fmt == {"landscape", "portrait"}

Max(a, b) == IF a >= b THEN a ELSE b
Min(a, b) == IF a <= b THEN a ELSE b

(* ------------------------------ colours ------------------------------- *)
White == <<255, 255, 255>>
\* the value of a resized pixel whose filter window spans several colours
Blend == <<>>

\* InvertColour with the blue channel taken from the green one
InvertColour_typo(c) == IF c = Blend THEN Blend ELSE <<255 - c[1], 255 - c[2], 255 - c[2]>>

\* ImageOps.invert on one RGB pixel
InvertColour(c) == IF c = Blend THEN Blend ELSE <<255 - c[1], 255 - c[2], 255 - c[3]>>

\* lum = 0.2126*r + 0.7152*g + 0.0722*b ; lum > 127, in IEEE doubles.  Over all
\* 256^3 pixels the double comparison agrees with the exact one except at
\* (110,137,78), whose exact luma is 127 and whose double sum is
\* 127.00000000000001.
LumaGt127(c) ==
    \/ 2126 * c[1] + 7152 * c[2] + 722 * c[3] > 1270000
    \/ c = <<110, 137, 78>>

(* --------------------------- core helpers ----------------------------- *)
\* detect_format comparing the widths only
detect_format_width_only(w, h) ==
    IF w = ORIG_W THEN "landscape"
    ELSE IF w = PORT_W THEN "portrait"
    ELSE "ValueError"

\* detect_format on a size; "ValueError" stands for the raise
detect_format_size(w, h) ==
    IF <<w, h>> = <<ORIG_W, ORIG_H>> THEN "landscape"
    ELSE IF <<w, h>> = <<PORT_W, PORT_H>> THEN "portrait"
    ELSE "ValueError"

detect_format(img) == detect_format_size(img.w, img.h)

\* (left, top, right, bottom)
picture_rect(f) ==
    IF f = "landscape"
    THEN <<SIDE_BORDER, TOP_BORDER, SIDE_BORDER + INNER_W, TOP_BORDER + INNER_H>>
    ELSE <<SIDE_SCALED, TOP_SCALED, SIDE_SCALED + PHOTO_SHORT, TOP_SCALED + PHOTO_LONG>>

InRect(x, y, box) == box[1] <= x /\ x < box[3] /\ box[2] <= y /\ y < box[4]

(* ------------------------- Pillow operations -------------------------- *)
\* Image.new("RGB", (w, h), colour)
New(w, h, colour) == [kind |-> "new", w |-> w, h |-> h, colour |-> colour]

\* base.paste(top, (ox, oy)): a copy of base with top drawn at (ox, oy)
Paste(base, top, ox, oy) ==
    [kind |-> "paste", w |-> base.w, h |-> base.h, base |-> base, top |-> top,
     ox |-> ox, oy |-> oy]

\* im.crop(box)
Crop(src, box) ==
    [kind |-> "crop", w |-> box[3] - box[1], h |-> box[4] - box[2], box |-> box, src |-> src]

\* im.transpose(method), method "ROTATE_90" or "ROTATE_270"
Transpose(src, method) ==
    [kind |-> "transpose", w |-> src.h, h |-> src.w, method |-> method, src |-> src]

\* ImageOps.invert(im)
Invert(src) == [kind |-> "invert", w |-> src.w, h |-> src.h, src |-> src]

\* im.resize((w, h), Image.BICUBIC)
Resize(src, w, h) == [kind |-> "resize", w |-> w, h |-> h, src |-> src]

\* Image.composite(a, b, mask): a where the mask is 255, b where it is 0
Composite(a, b, mask) ==
    [kind |-> "composite", w |-> a.w, h |-> a.h, a |-> a, b |-> b, mask |-> mask]

\* The first and last source index of the bicubic filter window of output
\* index i (Pillow's precompute_coeffs: support 2 * max(scale, 1) around the
\* centre (i + 0.5) * scale, scale = insize / outsize).
WinLo(i, insize, outsize) ==
    Max(0, ((2 * i + 1) * insize - 4 * Max(insize, outsize) + outsize) \div (2 * outsize))
WinHi(i, insize, outsize) ==
    Min(insize, ((2 * i + 1) * insize + 4 * Max(insize, outsize) + outsize) \div (2 * outsize)) - 1

\* an opened file: a framed print drawn in layout lay (side and top border of
\* colour frame, caption bar of colour bar, photo of colour pa in its left
\* half and pb in its right half)
FilePx(f, x, y) ==
    LET box == picture_rect(f.lay)
        barh == IF f.lay = "landscape" THEN BOTTOM_TEXT ELSE BOTTOM_TEXT_SCALED
    IN  IF InRect(x, y, box)
        THEN IF 2 * (x - box[1]) < box[3] - box[1] THEN f.pa ELSE f.pb
        ELSE IF y >= f.h - barh THEN f.bar ELSE f.frame

\* the "L" mask of build_frame_mask_precise: the four band pastes, in order
MaskPx(m, x, y) ==
    IF \/ (m.left_w > 0 /\ InRect(x, y, <<0, 0, m.left_w, m.h>>))
       \/ (m.right_w > 0 /\ InRect(x, y, <<m.w - m.right_w, 0, m.w, m.h>>))
       \/ (m.top_h > 0 /\ InRect(x, y, <<0, 0, m.w, m.top_h>>))
       \/ (m.bottom_h > 0 /\ InRect(x, y, <<0, m.h - m.bottom_h, m.w, m.h>>))
    THEN 255 ELSE 0

RECURSIVE Px(_, _, _)
\* the pixel (x, y) of an image, 0 <= x < img.w and 0 <= y < img.h
Px(img, x, y) ==
    CASE img.kind = "file" -> FilePx(img, x, y)
      [] img.kind = "new" -> img.colour
      [] img.kind = "paste" ->
            \* the pasted image is clipped to the canvas
            IF InRect(x, y, <<img.ox, img.oy, img.ox + img.top.w, img.oy + img.top.h>>)
            THEN Px(img.top, x - img.ox, y - img.oy)
            ELSE Px(img.base, x, y)
      [] img.kind = "crop" ->
            \* outside the source a crop is filled with zeros
            LET sx == x + img.box[1]
                sy == y + img.box[2]
            IN  IF InRect(sx, sy, <<0, 0, img.src.w, img.src.h>>)
                THEN Px(img.src, sx, sy) ELSE <<0, 0, 0>>
      [] img.kind = "transpose" ->
            IF img.method = "ROTATE_270"
            THEN Px(img.src, y, img.src.h - 1 - x)
            ELSE Px(img.src, img.src.w - 1 - y, x)
      [] img.kind = "invert" -> InvertColour(Px(img.src, x, y))
      [] img.kind = "resize" ->
            \* a window of one colour interpolates to that colour; the frame's
            \* bands are wider than the window, so its corners decide
            LET x0 == WinLo(x, img.src.w, img.w)
                x1 == WinHi(x, img.src.w, img.w)
                y0 == WinLo(y, img.src.h, img.h)
                y1 == WinHi(y, img.src.h, img.h)
                corners == {Px(img.src, cx, cy) : cx \in {x0, x1}, cy \in {y0, y1}}
            IN  IF Cardinality(corners) = 1 THEN CHOOSE c \in corners : TRUE ELSE Blend
      [] img.kind = "composite" ->
            IF MaskPx(img.mask, x, y) = 255 THEN Px(img.a, x, y) ELSE Px(img.b, x, y)

\* extract_inner
extract_inner(img, f) == Crop(img, picture_rect(f))

\* frame_is_light
frame_is_light(img) == LumaGt127(Px(img, 1, 1))

(* ----------------------- orientation rebuilds ------------------------- *)
\* bottom_src without the inversion of a dark frame's strip
bottom_src_asis(source_frame) ==
    LET sw == source_frame.w
        sh == source_frame.h
        src_bottom_h == IF <<sw, sh>> = <<ORIG_W, ORIG_H>> THEN BOTTOM_TEXT
                        ELSE BOTTOM_TEXT_SCALED
    IN  Crop(source_frame, <<0, sh - src_bottom_h, sw, sh>>)

\* the caption strip both rebuilds cut from the source frame, inverted when
\* the source frame is dark
bottom_src(source_frame) ==
    LET sw == source_frame.w
        sh == source_frame.h
        src_bottom_h == IF <<sw, sh>> = <<ORIG_W, ORIG_H>> THEN BOTTOM_TEXT
                        ELSE BOTTOM_TEXT_SCALED
        strip == Crop(source_frame, <<0, sh - src_bottom_h, sw, sh>>)
    IN  IF ~frame_is_light(source_frame) THEN Invert(strip) ELSE strip

build_landscape(pic, source_frame) ==
    LET canvas == Paste(New(ORIG_W, ORIG_H, White), pic, SIDE_BORDER, TOP_BORDER)
        bottom_resized == Resize(bottom_src(source_frame), ORIG_W, BOTTOM_TEXT)
    IN  Paste(canvas, bottom_resized, 0, ORIG_H - BOTTOM_TEXT)

\* build_portrait pasting the photo at the landscape offsets
build_portrait_landscape_offsets(pic, source_frame) ==
    LET canvas == Paste(New(PORT_W, PORT_H, White), pic, SIDE_BORDER, TOP_BORDER)
        bottom_resized == Resize(bottom_src(source_frame), PORT_W, BOTTOM_TEXT_SCALED)
    IN  Paste(canvas, bottom_resized, 0, PORT_H - BOTTOM_TEXT_SCALED)

build_portrait(pic, source_frame) ==
    LET canvas == Paste(New(PORT_W, PORT_H, White), pic, SIDE_SCALED, TOP_SCALED)
        bottom_resized == Resize(bottom_src(source_frame), PORT_W, BOTTOM_TEXT_SCALED)
    IN  Paste(canvas, bottom_resized, 0, PORT_H - BOTTOM_TEXT_SCALED)

\* the photo rotate_orientation hands to the rebuild
pic_rot(img, f, direction) ==
    LET pic == extract_inner(img, f)
    IN  IF direction = "clockwise" THEN Transpose(pic, "ROTATE_270")
        ELSE Transpose(pic, "ROTATE_90")

\* rotate_orientation rebuilding the geometry it was given
rotate_orientation_same(img, f, direction) ==
    IF f = "landscape" THEN build_landscape(pic_rot(img, f, direction), img)
    ELSE build_portrait(pic_rot(img, f, direction), img)

rotate_orientation(img, f, direction) ==
    IF f = "landscape" THEN build_portrait(pic_rot(img, f, direction), img)
    ELSE build_landscape(pic_rot(img, f, direction), img)

(* --------------------------- frame toggle ----------------------------- *)
\* build_frame_mask_precise splitting the vertical pad in two halves
build_frame_mask_halves(img) ==
    LET w == img.w
        h == img.h
        f == IF <<w, h>> = <<ORIG_W, ORIG_H>> THEN "landscape" ELSE "portrait"
        pad_w == Max(0, w - (IF f = "landscape" THEN PHOTO_LONG ELSE PHOTO_SHORT))
        pad_h == Max(0, h - (IF f = "landscape" THEN PHOTO_SHORT ELSE PHOTO_LONG))
    IN  [kind |-> "mask", w |-> w, h |-> h,
         left_w |-> pad_w \div 2, right_w |-> pad_w - pad_w \div 2,
         top_h |-> pad_h \div 2, bottom_h |-> pad_h - pad_h \div 2]

build_frame_mask_precise(img) ==
    LET w == img.w
        h == img.h
        f == IF <<w, h>> = <<ORIG_W, ORIG_H>> THEN "landscape" ELSE "portrait"
        inner_w == IF f = "landscape" THEN PHOTO_LONG ELSE PHOTO_SHORT
        inner_h == IF f = "landscape" THEN PHOTO_SHORT ELSE PHOTO_LONG
        \* top_share = share_num / share_den; pad_h * top_share is never within
        \* a rounding error of a tie, so round() of the double is RoundDiv
        share_num == IF f = "landscape" THEN TOP_BORDER ELSE TOP_SCALED
        share_den == IF f = "landscape" THEN TOP_BORDER + BOTTOM_TEXT
                     ELSE TOP_SCALED + BOTTOM_TEXT_SCALED
        pad_w == Max(0, w - inner_w)
        pad_h == Max(0, h - inner_h)
        left_w == pad_w \div 2
        top_h == RoundDiv(pad_h * share_num, share_den)
    IN  [kind |-> "mask", w |-> w, h |-> h,
         left_w |-> left_w, right_w |-> pad_w - left_w,
         top_h |-> top_h, bottom_h |-> pad_h - top_h]

\* toggle_frame_only with the two labels exchanged
toggle_frame_only_labels_exchanged(img) ==
    <<Composite(Invert(img), img, build_frame_mask_precise(img)),
      IF LumaGt127(Px(img, 1, 1)) THEN "-lightmode" ELSE "-darkmode">>

\* <<out, suffix>>
toggle_frame_only(img) ==
    LET suffix == IF LumaGt127(Px(img, 1, 1)) THEN "-darkmode" ELSE "-lightmode"
        inv == Invert(img)
        mask == build_frame_mask_precise(img)
    IN  <<Composite(inv, img, mask), suffix>>

\* the suffix save_with_suffix puts between the base name and the extension
save_with_suffix(tokens) ==
    LET RECURSIVE Join(_)
        Join(ts) == IF ts = <<>> THEN "" ELSE ("-" \o Head(ts)) \o Join(Tail(ts))
    IN  IF tokens # <<>> THEN Join(tokens) ELSE "-out"

\* str.lstrip("-") on the two mode suffixes
Lstrip(s) == IF s = "-darkmode" THEN "darkmode" ELSE "lightmode"

(* ------------------------------ inputs -------------------------------- *)
FrameColours == {<<200, 200, 200>>, <<30, 30, 30>>, <<128, 127, 127>>, <<110, 137, 78>>}
\* <<caption bar, left half of the photo, right half of the photo>>
Prints ==
    {<<<<240, 240, 240>>, <<128, 128, 128>>, <<128, 128, 128>>>>,
     <<<<20, 60, 100>>, <<200, 30, 40>>, <<10, 90, 250>>>>}

File(w, h, lay, frame, print) ==
    [kind |-> "file", w |-> w, h |-> h, lay |-> lay, frame |-> frame,
     bar |-> print[1], pa |-> print[2], pb |-> print[3]]

KnownSizes == {<<ORIG_W, ORIG_H>>, <<PORT_W, PORT_H>>}

\* files of a recognized size, drawn in either layout
PrintFiles ==
    {File(s[1], s[2], lay, frame, print) :
        s \in KnownSizes, lay \in Fmt, frame \in FrameColours, print \in Prints}

Widths == {ORIG_W + d : d \in -Slack..Slack} \cup {PORT_W + d : d \in -Slack..Slack}
            \cup {INNER_W, PHOTO_SHORT}
Heights == {ORIG_H + d : d \in -Slack..Slack} \cup {PORT_H + d : d \in -Slack..Slack}
            \cup {INNER_H, PHOTO_LONG}

\* files of any size; the ones of no recognized size all show the same print
AnyFiles ==
    PrintFiles \cup
    {File(w, h, "landscape", <<200, 200, 200>>,
          <<<<240, 240, 240>>, <<128, 128, 128>>, <<128, 128, 128>>>>) :
        w \in Widths, h \in Heights}

NoImage == [kind |-> "none", w |-> 0, h |-> 0]
NoCall == [op |-> "none", fmt |-> "", direction |-> "", ret |-> ""]

Opposite(f) == IF f = "landscape" THEN "portrait" ELSE "landscape"

(* ------------------------ the library, called ------------------------- *)
MainIdle ==
    /\ pc = "lib"
    /\ actions = {}
    /\ fmt = ""
    /\ suffix_tokens = <<>>
    /\ out_path = ""

InitLib ==
    /\ cur \in PrintFiles
    /\ orig = cur
    /\ inp = NoImage
    /\ photo = NoImage
    /\ call = NoCall
    /\ steps = 0
    /\ rots = 0
    /\ MainIdle

\* detect_format(cur)
CallDetect ==
    /\ steps < MaxOps
    /\ call' = [op |-> "detect_format", fmt |-> "", direction |-> "",
                ret |-> detect_format(cur)]
    /\ inp' = cur
    /\ steps' = steps + 1
    /\ UNCHANGED <<cur, photo, orig, rots>>
    /\ UNCHANGED mainvars

\* cur = rotate_orientation(cur, f, direction); rots counts the calls while
\* every call so far passed the geometry of its input, and is -1 afterwards
CallRotate ==
    /\ steps < MaxOps
    /\ \E f \in Fmt, direction \in {"clockwise", "counterclockwise"} :
          /\ cur' = rotate_orientation(cur, f, direction)
          /\ photo' = pic_rot(cur, f, direction)
          /\ call' = [op |-> "rotate_orientation", fmt |-> f, direction |-> direction,
                      ret |-> "image"]
          /\ rots' = IF rots >= 0 /\ f = detect_format(cur) THEN rots + 1 ELSE -1
    /\ inp' = cur
    /\ steps' = steps + 1
    /\ UNCHANGED orig
    /\ UNCHANGED mainvars

\* cur, suffix = toggle_frame_only(cur)
CallToggle ==
    /\ steps < MaxOps
    /\ cur' = toggle_frame_only(cur)[1]
    /\ call' = [op |-> "toggle_frame_only", fmt |-> "", direction |-> "",
                ret |-> toggle_frame_only(cur)[2]]
    /\ inp' = cur
    /\ steps' = steps + 1
    /\ UNCHANGED <<photo, orig, rots>>
    /\ UNCHANGED mainvars

NextLib == CallDetect \/ CallRotate \/ CallToggle

Spec == InitLib /\ [][NextLib]_vars

(* --------------------- the pixels the claims look at ------------------- *)
\* Every region of every image here is a rectangle whose sides lie on the
\* columns XEdges and the rows YEdges, so the pixels next to each side, the
\* corners and the centre stand for all pixels.
XEdges == {SIDE_BORDER, SIDE_BORDER + INNER_W, SIDE_SCALED, SIDE_SCALED + PHOTO_SHORT}
YEdges == {TOP_BORDER, TOP_BORDER + INNER_H, TOP_SCALED, TOP_SCALED + PHOTO_LONG}
Near(edges, size) ==
    {v \in {0, 1, size \div 2, size - 1} \cup {e - 1 : e \in edges} \cup edges :
        0 <= v /\ v < size}
Pixels(img) == Near(XEdges, img.w) \X Near(YEdges, img.h)

BarH(f) == IF f = "landscape" THEN BOTTOM_TEXT ELSE BOTTOM_TEXT_SCALED
SizeOf(f) == IF f = "landscape" THEN <<ORIG_W, ORIG_H>> ELSE <<PORT_W, PORT_H>>
Recognized(img) == detect_format(img) \in Fmt
Toggled == call.op = "toggle_frame_only" /\ Recognized(inp)
Rotated == call.op = "rotate_orientation" /\ Recognized(inp)

(* C2: toggle_frame_only keeps the size, keeps every pixel of the photo
   rectangle of the input's geometry and inverts every other pixel. *)
C2_ToggleInvertsExactlyTheFrame ==
    Toggled =>
        /\ <<cur.w, cur.h>> = <<inp.w, inp.h>>
        /\ \A p \in Pixels(inp) :
              Px(cur, p[1], p[2]) =
                 IF InRect(p[1], p[2], picture_rect(detect_format(inp)))
                 THEN Px(inp, p[1], p[2])
                 ELSE InvertColour(Px(inp, p[1], p[2]))

C2_Witness ==
    /\ Toggled
    /\ \E p \in Pixels(inp) :
          /\ InRect(p[1], p[2], picture_rect(detect_format(inp)))
          /\ Px(inp, p[1], p[2]) # Blend
          /\ Px(cur, p[1], p[2]) = Px(inp, p[1], p[2])
    /\ \E p \in Pixels(inp) :
          /\ ~InRect(p[1], p[2], picture_rect(detect_format(inp)))
          /\ Px(inp, p[1], p[2]) # Blend
          /\ Px(cur, p[1], p[2]) # Px(inp, p[1], p[2])

(* C3: while every rotate_orientation call passes the geometry of its input,
   each result has the size of the opposite geometry, so the size is the
   original one after an even number of rotations and the opposite one after
   an odd number; no rotation keeps the size. *)
C3_RotationFlipsGeometry ==
    /\ (Rotated /\ call.fmt = detect_format(inp)) =>
          /\ <<cur.w, cur.h>> = SizeOf(Opposite(detect_format(inp)))
          /\ <<cur.w, cur.h>> # <<inp.w, inp.h>>
    /\ rots >= 0 =>
          <<cur.w, cur.h>> = IF rots % 2 = 0 THEN <<orig.w, orig.h>>
                             ELSE SizeOf(Opposite(detect_format(orig)))

C3_Witness ==
    /\ rots = 2
    /\ call.op = "rotate_orientation"
    /\ <<cur.w, cur.h>> = <<orig.w, orig.h>>
    /\ <<inp.w, inp.h>> = SizeOf(Opposite(detect_format(orig)))

(* C4: after rotate_orientation every pixel of the result in the left, right
   or top border of the result's geometry is (255,255,255). *)
C4_BordersWhiteAfterRotate ==
    Rotated =>
        \A p \in Pixels(cur) :
            (/\ ~InRect(p[1], p[2], picture_rect(detect_format(cur)))
             /\ p[2] < cur.h - BarH(detect_format(cur)))
            => Px(cur, p[1], p[2]) = White

C4_Witness ==
    /\ Rotated
    /\ Px(inp, 1, 1) = <<30, 30, 30>>
    /\ Px(cur, 1, 1) = White
    /\ Px(cur, cur.w - 1, 0) = White
    /\ Px(cur, picture_rect(detect_format(cur))[1], picture_rect(detect_format(cur))[2]) # White

(* C5: the label toggle_frame_only returns describes its output: it is
   "-darkmode" exactly when the output pixel (1,1) has luma <= 127. *)
C5_LabelDescribesOutput ==
    Toggled =>
        LET c == Px(cur, 1, 1)
        IN  (call.ret = "-darkmode") <=>
               (2126 * c[1] + 7152 * c[2] + 722 * c[3] <= 1270000)

(* C6: toggle_frame_only applied twice gives back every pixel of the
   original image. *)
C6_DoubleToggleRestores ==
    (Toggled /\ inp.kind = "composite") =>
        /\ <<cur.w, cur.h>> = <<inp.b.w, inp.b.h>>
        /\ \A p \in Pixels(cur) : Px(cur, p[1], p[2]) = Px(inp.b, p[1], p[2])

C6_Witness ==
    /\ Toggled
    /\ inp.kind = "composite"
    /\ Px(inp, 1, 1) # Px(cur, 1, 1)
    /\ Px(inp.b, 1, 1) = Px(cur, 1, 1)
    /\ Px(inp.b, 0, cur.h - 1) = Px(cur, 0, cur.h - 1)

\* the caption-bar pixels of a rotation's result, and under each the source
\* pixel at the centre of its filter window
BarPixels == {p \in Pixels(cur) : p[2] >= cur.h - BarH(detect_format(cur))}
SourceUnder(p) ==
    LET sh == BarH(detect_format(inp))
        th == BarH(detect_format(cur))
    IN  Px(inp, ((2 * p[1] + 1) * inp.w) \div (2 * cur.w),
             (inp.h - sh) + ((2 * (p[2] - (cur.h - th)) + 1) * sh) \div (2 * th))

(* C7 as stated: the caption bar of a rotation's result is the source's bottom
   strip resized, with the source's colours, whatever the frame brightness. *)
C7_StripCarriedAsIs ==
    Rotated =>
        \A p \in BarPixels : \A v \in {Px(cur, p[1], p[2])} :
            v # Blend => v = SourceUnder(p)

(* C7 amended: the caption bar of a rotation's result is the source's bottom
   strip resized, with the source's colours when the source frame is light at
   (1,1) and with the inverted colours when it is dark. *)
C7_StripInvertedWhenDark ==
    Rotated =>
        \A p \in BarPixels : \A v \in {Px(cur, p[1], p[2])} :
            v # Blend =>
                v = IF frame_is_light(inp) THEN SourceUnder(p)
                    ELSE InvertColour(SourceUnder(p))

C7_Witness ==
    /\ Rotated
    /\ ~frame_is_light(inp)
    /\ \E p \in BarPixels : \E v \in {Px(cur, p[1], p[2])} :
          /\ v # Blend
          /\ v = InvertColour(SourceUnder(p))
          /\ v # SourceUnder(p)

(* -------------------- detect_format on files of any size -------------- *)
InitDetect ==
    /\ cur \in AnyFiles
    /\ orig = cur
    /\ inp = NoImage
    /\ photo = NoImage
    /\ call = NoCall
    /\ steps = 0
    /\ rots = 0
    /\ MainIdle

NextDetect == CallDetect

SpecDetect == InitDetect /\ [][NextDetect]_vars

(* C1: detect_format returns landscape exactly for 2048x1440, portrait exactly
   for 1152x2123, and raises for every other size. *)
C1_DetectionExact ==
    call.op = "detect_format" =>
        /\ call.ret = "landscape" <=> <<inp.w, inp.h>> = <<2048, 1440>>
        /\ call.ret = "portrait" <=> <<inp.w, inp.h>> = <<1152, 2123>>
        /\ call.ret = "ValueError" <=>
              <<inp.w, inp.h>> \notin {<<2048, 1440>>, <<1152, 2123>>}
        /\ <<PORT_W, PORT_H>> = <<1152, 2123>>

C1_Witness ==
    /\ call.op = "detect_format"
    /\ <<inp.w, inp.h>> = <<1152, 2122>>
    /\ call.ret = "ValueError"

(* ------------------------ the rebuilds, called ------------------------ *)
\* the photos handed to a rebuild: the photo rectangle of either geometry cut
\* from the current image, as it is or rotated
PhotosOf(img) ==
    {extract_inner(img, f) : f \in Fmt}
      \cup {pic_rot(img, f, d) : f \in Fmt, d \in {"clockwise", "counterclockwise"}}

\* cur = build_landscape(pic, cur)
CallBuildLandscape ==
    /\ steps < MaxOps
    /\ \E pic \in PhotosOf(cur) :
          /\ cur' = build_landscape(pic, cur)
          /\ photo' = pic
    /\ call' = [op |-> "build_landscape", fmt |-> "landscape", direction |-> "",
                ret |-> "image"]
    /\ inp' = cur
    /\ steps' = steps + 1
    /\ rots' = -1
    /\ UNCHANGED orig
    /\ UNCHANGED mainvars

\* cur = build_portrait(pic, cur)
CallBuildPortrait ==
    /\ steps < MaxOps
    /\ \E pic \in PhotosOf(cur) :
          /\ cur' = build_portrait(pic, cur)
          /\ photo' = pic
    /\ call' = [op |-> "build_portrait", fmt |-> "portrait", direction |-> "",
                ret |-> "image"]
    /\ inp' = cur
    /\ steps' = steps + 1
    /\ rots' = -1
    /\ UNCHANGED orig
    /\ UNCHANGED mainvars

NextBuild == CallBuildLandscape \/ CallBuildPortrait \/ CallRotate

SpecBuild == InitLib /\ [][NextBuild]_vars

\* the geometry the last rebuild built
Target ==
    IF call.op = "rotate_orientation" THEN Opposite(call.fmt) ELSE call.fmt
Rebuilt == call.op \in {"build_landscape", "build_portrait", "rotate_orientation"}
PhotoFits ==
    <<photo.w, photo.h>> =
        <<picture_rect(Target)[3] - picture_rect(Target)[1],
          picture_rect(Target)[4] - picture_rect(Target)[2]>>

(* C8: a rebuild whose photo has not exactly the size of the target's photo
   rectangle fails with a dimension-mismatch error and returns no image. *)
C8_MismatchedPhotoRaises ==
    (Rebuilt /\ ~PhotoFits) => (call.ret = "DimensionMismatch" /\ cur = inp)

(* ------------------------- the command line --------------------------- *)
InitMain ==
    /\ orig \in AnyFiles
    /\ cur = NoImage
    /\ inp = NoImage
    /\ photo = NoImage
    /\ call = NoCall
    /\ steps = 0
    /\ rots = 0
    /\ pc = "start"
    /\ actions = {}
    /\ fmt = ""
    /\ suffix_tokens = <<>>
    /\ out_path = ""

\* the checkbox prompt with at least one action ticked
MainSelect ==
    /\ pc = "start"
    /\ \E a \in SUBSET {"orientation", "mode"} : a # {} /\ actions' = a
    /\ pc' = "open"
    /\ UNCHANGED <<fmt, suffix_tokens, out_path>>
    /\ UNCHANGED libvars

\* no action ticked: sys.exit(0)
MainNoActions ==
    /\ pc = "start"
    /\ pc' = "exit0"
    /\ UNCHANGED <<actions, fmt, suffix_tokens, out_path>>
    /\ UNCHANGED libvars

\* im = Image.open(in_path)
MainOpen ==
    /\ pc = "open"
    /\ cur' = orig
    /\ pc' = "detect"
    /\ UNCHANGED <<inp, photo, call, steps, orig, rots>>
    /\ UNCHANGED <<actions, fmt, suffix_tokens, out_path>>

\* Image.open raises: sys.exit(1)
MainOpenFails ==
    /\ pc = "open"
    /\ pc' = "exit1"
    /\ UNCHANGED <<actions, fmt, suffix_tokens, out_path>>
    /\ UNCHANGED libvars

\* fmt = detect_format(im)
MainDetect ==
    /\ pc = "detect"
    /\ detect_format(cur) \in Fmt
    /\ fmt' = detect_format(cur)
    /\ pc' = "orientation"
    /\ UNCHANGED <<actions, suffix_tokens, out_path>>
    /\ UNCHANGED libvars

\* detect_format falling back to portrait instead of raising
MainDetectFallsBack ==
    /\ pc = "detect"
    /\ detect_format(cur) \notin Fmt
    /\ fmt' = "portrait"
    /\ pc' = "orientation"
    /\ UNCHANGED <<actions, suffix_tokens, out_path>>
    /\ UNCHANGED libvars

\* detect_format raises: sys.exit(1)
MainDetectFails ==
    /\ pc = "detect"
    /\ detect_format(cur) \notin Fmt
    /\ pc' = "exit1"
    /\ UNCHANGED <<actions, fmt, suffix_tokens, out_path>>
    /\ UNCHANGED libvars

\* 1) if "orientation" in actions
MainOrientation ==
    /\ pc = "orientation"
    /\ "orientation" \in actions
    /\ \E direction \in {"clockwise", "counterclockwise"} :
          /\ cur' = rotate_orientation(cur, fmt, direction)
          /\ photo' = pic_rot(cur, fmt, direction)
          /\ call' = [op |-> "rotate_orientation", fmt |-> fmt, direction |-> direction,
                      ret |-> "image"]
    /\ inp' = cur
    /\ suffix_tokens' = Append(suffix_tokens, "orientation")
    /\ fmt' = Opposite(fmt)
    /\ pc' = "mode"
    /\ UNCHANGED <<steps, orig, rots, actions, out_path>>

MainSkipOrientation ==
    /\ pc = "orientation"
    /\ "orientation" \notin actions
    /\ pc' = "mode"
    /\ UNCHANGED <<actions, fmt, suffix_tokens, out_path>>
    /\ UNCHANGED libvars

\* 2) if "mode" in actions
MainMode ==
    /\ pc = "mode"
    /\ "mode" \in actions
    /\ cur' = toggle_frame_only(cur)[1]
    /\ call' = [op |-> "toggle_frame_only", fmt |-> "", direction |-> "",
                ret |-> toggle_frame_only(cur)[2]]
    /\ inp' = cur
    /\ suffix_tokens' = Append(suffix_tokens, Lstrip(toggle_frame_only(cur)[2]))
    /\ pc' = "save"
    /\ UNCHANGED <<photo, steps, orig, rots, actions, fmt, out_path>>

MainSkipMode ==
    /\ pc = "mode"
    /\ "mode" \notin actions
    /\ pc' = "save"
    /\ UNCHANGED <<actions, fmt, suffix_tokens, out_path>>
    /\ UNCHANGED libvars

\* out_path = save_with_suffix(in_path, suffix_tokens, current.convert("RGB"))
MainSave ==
    /\ pc = "save"
    /\ out_path' = save_with_suffix(suffix_tokens)
    /\ pc' = "done"
    /\ UNCHANGED <<actions, fmt, suffix_tokens>>
    /\ UNCHANGED libvars

\* image.save raises: sys.exit(1)
MainSaveFails ==
    /\ pc = "save"
    /\ pc' = "exit1"
    /\ UNCHANGED <<actions, fmt, suffix_tokens, out_path>>
    /\ UNCHANGED libvars

NextMain ==
    \/ MainSelect \/ MainNoActions
    \/ MainOpen \/ MainOpenFails
    \/ MainDetect \/ MainDetectFails
    \/ MainOrientation \/ MainSkipOrientation
    \/ MainMode \/ MainSkipMode
    \/ MainSave \/ MainSaveFails

SpecMain == InitMain /\ [][NextMain]_vars

\* the run is past format detection, or has transformed or saved something
PastDetection ==
    \/ pc \in {"orientation", "mode", "save", "done"}
    \/ call.op # "none"
    \/ suffix_tokens # <<>>
    \/ out_path # ""
    \/ cur \notin {NoImage, orig}

(* C9: a file of no recognized size ends the run right after detection: no
   transform is applied and nothing is saved; transforms and the save are
   reached only after detect_format returned a geometry. *)
C9_DetectionIsAHardGate ==
    /\ PastDetection =>
          /\ <<orig.w, orig.h>> \in {<<2048, 1440>>, <<1152, 2123>>}
          /\ fmt \in Fmt
    /\ (pc = "exit1" /\ cur # NoImage
           /\ <<orig.w, orig.h>> \notin {<<2048, 1440>>, <<1152, 2123>>}) =>
          (cur = orig /\ call.op = "none" /\ suffix_tokens = <<>> /\ out_path = "")

C9_Witness ==
    /\ pc = "exit1"
    /\ cur = orig
    /\ <<orig.w, orig.h>> = <<2048, 1441>>
    /\ actions = {"orientation", "mode"}
    /\ ~PastDetection

(* C10: with both actions selected the rotation runs first and the toggle
   runs on the rotated image, whose pixel (1,1) is white, so the toggle
   reports "-darkmode" and the saved name's suffix is "-orientation-darkmode". *)
C10_BothActionsSuffix ==
    actions = {"orientation", "mode"} =>
        /\ call.op = "toggle_frame_only" =>
              /\ \E d \in {"clockwise", "counterclockwise"} :
                    inp = rotate_orientation(orig, detect_format(orig), d)
              /\ Px(inp, 1, 1) = White
              /\ call.ret = "-darkmode"
              /\ suffix_tokens = <<"orientation", "darkmode">>
        /\ pc \in {"save", "done"} => call.op = "toggle_frame_only"
        /\ pc = "done" => out_path = "-orientation-darkmode"
        /\ \A i \in 1..Len(suffix_tokens) : suffix_tokens[i] # "lightmode"

C10_Witness ==
    /\ pc = "done"
    /\ actions = {"orientation", "mode"}
    /\ Px(orig, 1, 1) = <<30, 30, 30>>
    /\ out_path = "-orientation-darkmode"
====
